---- MODULE Spec2Model ----
(***************************************************************************)
(* Model of gscpy/i_script.py: the Grassify importer (directory walk,      *)
(* regex filename filter, exclusion test, rename, copy with overwrite      *)
(* policy) and the main() driver.                                          *)
(*                                                                         *)
(* Python strings are sequences of one-character strings; paths are such   *)
(* strings with "/" separators, as os.path treats them.  The empty string  *)
(* stands for None: line 278 turns every '' option into None.              *)
(***************************************************************************)
EXTENDS Integers, Sequences, FiniteSets, TLC

VARIABLES
    pc,           \* position of main(): start, constructed, printed, copied, exited, fatal, raised
    opts,         \* options/flags of the run (input_dir, export_path, pattern, exclusion, p, r)
    fs,           \* file system, regular files: path -> content
    dirs,         \* file system, directories: set of paths
    exclusion,    \* self.exclusion
    import_path,  \* self.import_path
    export_path,  \* self.export_path (Unset while the attribute does not exist)
    files,        \* self.files
    messages,     \* texts passed to gs.message / gs.fatal
    stdout,       \* paths written by print_products
    exitCode,     \* statuses the process ended with: << >> while it runs
    copies,       \* number of calls of Grassify.copy so far
    copyLog,      \* per index of self.files: what the last copy() did with it
    fs0           \* history: the file system before the run

vars == <<pc, opts, fs, dirs, exclusion, import_path, export_path, files,
          messages, stdout, exitCode, copies, copyLog, fs0>>

-----------------------------------------------------------------------------
(* Strings *)

None == << >>
Unset == << >>

SLASH == "/"
extension == <<".", "p", "y">>

StartsWith(s, prefix) ==
    /\ Len(prefix) <= Len(s)
    /\ SubSeq(s, 1, Len(prefix)) = prefix

\* str.endswith
EndsWith(s, suffix) ==
    /\ Len(suffix) <= Len(s)
    /\ SubSeq(s, Len(s) - Len(suffix) + 1, Len(s)) = suffix

\* str.replace(old, new) for one-character old and new
Replace(s, old, new) == [k \in 1..Len(s) |-> IF s[k] = old THEN new ELSE s[k]]

\* str.rfind of one character: 0 when absent (Python's -1, positions from 1)
RFind(s, ch) ==
    LET hits == {k \in 1..Len(s) : s[k] = ch}
    IN  IF hits = {} THEN 0 ELSE CHOOSE k \in hits : \A j \in hits : j <= k

\* 'x in s' for two strings: substring test
IsSubstring(x, s) ==
    \E k \in 0..(Len(s) - Len(x)) : SubSeq(s, k + 1, k + Len(x)) = x

\* 'x in l' for a list l
InList(x, l) == \E k \in 1..Len(l) : l[k] = x

\* os.path.basename
basename(p) == SubSeq(p, RFind(p, SLASH) + 1, Len(p))

\* os.path.dirname (for paths below the root directory)
dirname(p) ==
    LET i == RFind(p, SLASH)
    IN  IF i <= 1 THEN SubSeq(p, 1, i) ELSE SubSeq(p, 1, i - 1)

\* os.path.join of two parts
join(a, b) ==
    IF b # << >> /\ b[1] = SLASH THEN b
    ELSE IF a = << >> \/ a[Len(a)] = SLASH THEN a \o b
    ELSE a \o <<SLASH>> \o b

\* os.path.splitext: the root part.  The extension starts at the last dot
\* of the last component, unless only dots precede it there.
splitext_root(p) ==
    LET sep == RFind(p, SLASH)
        dot == RFind(p, ".")
    IN  IF dot > sep /\ \E k \in (sep + 1)..(dot - 1) : p[k] # "."
        THEN SubSeq(p, 1, dot - 1)
        ELSE p

\* One regular-expression atom against one character ('.' is any character)
AtomMatches(atom, ch) == atom = "." \/ atom = ch

\* re.match for patterns made of characters, '.' and a postfix '*':
\* the pattern has to match at the start of s, not all of s.
RECURSIVE re_match(_, _)
re_match(pat, s) ==
    IF pat = << >> THEN TRUE
    ELSE IF Len(pat) >= 2 /\ pat[2] = "*"
    THEN \E k \in 0..Len(s) :
            /\ \A j \in 1..k : AtomMatches(pat[1], s[j])
            /\ re_match(SubSeq(pat, 3, Len(pat)), SubSeq(s, k + 1, Len(s)))
    ELSE /\ s # << >>
         /\ AtomMatches(pat[1], s[1])
         /\ re_match(Tail(pat), Tail(s))

-----------------------------------------------------------------------------
(* Names and paths of the bounded file systems *)

MaxSrcFiles == 2     \* files under input_dir before the run
MaxCopyCalls == 2    \* calls of Grassify.copy on one object

InputDir == <<"/", "p">>
SubDir == <<"/", "p", "/", "s">>
OutDir == <<"/", "o">>

n_i_a_py == <<"i", "_", "a", ".", "p", "y">>
n_a_py == <<"a", ".", "p", "y">>
n_setup_py == <<"s", "e", "t", "u", "p", ".", "p", "y">>
n_init_py == <<"_", "_", "i", "n", "i", "t", "_", "_", ".", "p", "y">>
n_i_a == <<"i", ".", "a">>
n_i_a_dotpy == <<"i", ".", "a", ".", "p", "y">>
n_i_a_py_py == <<"i", "_", "a", ".", "p", "y", ".", "p", "y">>

SrcPaths ==
    {join(InputDir, n) : n \in {n_i_a_py, n_a_py, n_setup_py, n_init_py,
                                n_i_a, n_i_a_dotpy, n_i_a_py_py}}
    \cup {join(SubDir, n) : n \in {n_i_a_py, n_a_py}}
    \cup {join(join(InputDir, n_i_a), n_i_a_py)}

\* self.candidates
candidates ==
    << <<"g", "r", "a", "s", "s", "7", "0">>,
       <<"g", "r", "a", "s", "s", "7", "1">>,
       <<"g", "r", "a", "s", "s", "7", "2">>,
       <<"g", "r", "a", "s", "s", "7", "3">>,
       <<"g", "r", "a", "s", "s", "7", "4">> >>

\* '/usr/lib/' + item + '/scripts'
CandidatePath(item) ==
    <<"/", "u", "s", "r", "/", "l", "i", "b", "/">> \o item
        \o <<"/", "s", "c", "r", "i", "p", "t", "s">>

\* the default of self.exclusion
DefaultExclusion ==
    << n_init_py,
       <<"_", "_", "v", "e", "r", "s", "i", "o", "n", "_", "_", ".", "p", "y">>,
       <<"s", "e", "t", "u", "p", "_", "g", "r", "a", "s", "s", ".", "p", "y">>,
       <<"g", "s", "c", "p", "y", ".", "p", "y">>,
       n_setup_py >>

ExclusionOptions == {None, n_i_a_py}
PatternOptions == {None, <<"i", ".", "*">>}

\* which candidate install directories exist
CandidateScenarios ==
    { {}, {CandidatePath(candidates[1])}, {CandidatePath(candidates[5])},
      {CandidatePath(candidates[2]), CandidatePath(candidates[4])} }

\* export_path option, and what the destination side holds before the run
DestScenarios ==
    {[export |-> None, edirs |-> c, efiles |-> {}] : c \in CandidateScenarios}
    \cup {[export |-> None, edirs |-> {CandidatePath(candidates[5])},
           efiles |-> {join(CandidatePath(candidates[5]), n_i_a)}]}
    \cup {[export |-> OutDir, edirs |-> {}, efiles |-> {}],
          [export |-> OutDir, edirs |-> {OutDir}, efiles |-> {}],
          [export |-> OutDir, edirs |-> {OutDir}, efiles |-> {join(OutDir, n_i_a)}],
          [export |-> OutDir, edirs |-> {OutDir, join(OutDir, n_i_a)}, efiles |-> {}]}
    \cup {[export |-> InputDir, edirs |-> {}, efiles |-> {}],
          [export |-> InputDir, edirs |-> {join(InputDir, n_i_a)}, efiles |-> {}]}

-----------------------------------------------------------------------------
(* File system *)

\* os.path.exists
exists(p, f, d) == p \in d \/ p \in DOMAIN f

\* os.path.isdir
isdir(p, d) == p \in d

\* p is the directory top or lies below it
Under(top, p) == p = top \/ StartsWith(p, join(top, << >>))

\* all enumerations of a finite set as a list
Perms(S) ==
    {l \in [1..Cardinality(S) -> S] : \A x \in S : \E k \in DOMAIN l : l[k] = x}

\* os.listdir order is arbitrary: the file names of directory d, in any order
ListOrders(d, f) == Perms({basename(p) : p \in {q \in DOMAIN f : dirname(q) = d}})

\* os.walk(top), top-down: every directory at or below top, a directory
\* before the directories in it; the records are (dirpath, filenames)
WalkOrders(top, f, d) ==
    LET D == {x \in d : Under(top, x)}
        dorders == {o \in Perms(D) :
                      \A i \in DOMAIN o : \A j \in DOMAIN o :
                          (o[i] # o[j] /\ Under(o[i], o[j])) => i < j}
        lists == {g \in [D -> UNION {ListOrders(x, f) : x \in D}] :
                      \A x \in D : g[x] \in ListOrders(x, f)}
    IN  {[k \in DOMAIN o |-> [dirpath |-> o[k], filenames |-> g[o[k]]]] :
            o \in dorders, g \in lists}

-----------------------------------------------------------------------------
(* Grassify *)

\* 'f in self.exclusion': membership for the default list, and a substring
\* test for the string that main() passes from options['exclusion']
InExclusion(f, excl) ==
    IF excl.kind = "list" THEN InList(f, excl.val) ELSE IsSubstring(f, excl.val)

\* the loop body of __filter over one directory's matches
RECURSIVE FilterNames(_, _, _, _)
FilterNames(names, dirpath, filter_p, excl) ==
    IF names = << >> THEN << >>
    ELSE LET f == Head(names)
             rest == FilterNames(Tail(names), dirpath, filter_p, excl)
         IN  IF ~re_match(filter_p, f) THEN rest
             ELSE IF InExclusion(f, excl) THEN rest
             ELSE IF EndsWith(f, extension) THEN <<join(dirpath, f)>> \o rest
             ELSE rest

\* Grassify.__filter over the records of os.walk
RECURSIVE Filter(_, _, _)
Filter(walk, filter_p, excl) ==
    IF walk = << >> THEN << >>
    ELSE LET rec == Head(walk)
         IN  IF rec.filenames = << >>
             THEN Filter(Tail(walk), filter_p, excl)
             ELSE FilterNames(rec.filenames, rec.dirpath, filter_p, excl)
                      \o Filter(Tail(walk), filter_p, excl)

\* the candidate loop of __init__: every existing candidate is assigned in
\* turn, so the last existing one stays; cur is self.export_path so far
RECURSIVE CandidateLoop(_, _, _, _)
CandidateLoop(k, cur, f, d) ==
    IF k > Len(candidates) THEN cur
    ELSE LET path == CandidatePath(candidates[k])
         IN  CandidateLoop(k + 1, IF exists(path, f, d) THEN path ELSE cur, f, d)

\* 'self.files is []': identity with a fresh list object, never true
IsFreshEmptyList(l) == FALSE

NoFilesMessage == "No files detected"
InputDirMessage == "Input directory not exists"

\* the destination name copy() computes for one entry of self.files
NewName(export, file) ==
    join(export, Replace(splitext_root(basename(file)), "_", "."))

\* copy() with the existence test lost: every file is copied
ShouldCopy_always(new_name, replace, f, d) == TRUE

\* copy() with the replace flag lost: only missing destinations are written
ShouldCopy_ifAbsent(new_name, replace, f, d) == ~exists(new_name, f, d)

\* the test of copy() for one file: copy or leave alone
ShouldCopy(new_name, replace, f, d) == ~exists(new_name, f, d) \/ replace

\* shutil.move in place of shutil.copy: the source is gone afterwards
ShutilMove(st, src, dst, d) ==
    LET target == IF isdir(dst, d) THEN join(dst, basename(src)) ELSE dst
    IN  IF target = src \/ isdir(target, d)
        THEN [st EXCEPT !.err = TRUE]
        ELSE [st EXCEPT !.fs = [x \in (DOMAIN st.fs \cup {target}) \ {src} |->
                                   IF x = target THEN st.fs[src] ELSE st.fs[x]],
                        !.log = Append(st.log, [src |-> src, target |-> target,
                                                content |-> st.fs[src], copied |-> TRUE])]

\* shutil.copy(src, dst) on state st = [fs, log, err]: into dst when dst is
\* a directory; the same file raises shutil.Error, a directory as the final
\* target raises IOError
ShutilCopy(st, src, dst, d) ==
    LET target == IF isdir(dst, d) THEN join(dst, basename(src)) ELSE dst
    IN  IF target = src \/ isdir(target, d)
        THEN [st EXCEPT !.err = TRUE]
        ELSE [st EXCEPT !.fs = (target :> st.fs[src]) @@ st.fs,
                        !.log = Append(st.log, [src |-> src, target |-> target,
                                                content |-> st.fs[src], copied |-> TRUE])]

\* the loop of copy() from index i on; a missing self.export_path raises
\* AttributeError at the first file
RECURSIVE CopyLoop(_, _, _, _, _, _)
CopyLoop(i, st, fl, export, replace, d) ==
    IF i > Len(fl) \/ st.err THEN st
    ELSE IF export = Unset THEN [st EXCEPT !.err = TRUE]
    ELSE LET old_name == fl[i]
             new_name == NewName(export, old_name)
             next == IF ShouldCopy(new_name, replace, st.fs, d)
                     THEN ShutilCopy(st, old_name, new_name, d)
                     ELSE [st EXCEPT !.log = Append(st.log,
                               [src |-> old_name, target |-> new_name,
                                content |-> st.fs[old_name], copied |-> FALSE])]
         IN  CopyLoop(i + 1, next, fl, export, replace, d)

-----------------------------------------------------------------------------
(* The run *)

Init ==
    \E srcs \in SUBSET SrcPaths, inputExists \in BOOLEAN, dest \in DestScenarios,
       ex \in ExclusionOptions, pat \in PatternOptions, p \in BOOLEAN, r \in BOOLEAN :
        /\ Cardinality(srcs) <= MaxSrcFiles
        /\ ~inputExists => srcs = {}
        /\ \A x \in dest.edirs : Under(InputDir, x) => inputExists /\ x \notin srcs
        /\ \A x \in srcs : dirname(x) \in {InputDir, SubDir} \cup dest.edirs
        /\ opts = [input_dir |-> InputDir, export_path |-> dest.export,
                   pattern |-> pat, exclusion |-> ex, p |-> p, r |-> r]
        /\ fs = [x \in srcs \cup dest.efiles |-> x]
        /\ dirs = (IF inputExists THEN {InputDir, SubDir} ELSE {}) \cup dest.edirs
        /\ fs0 = fs
        /\ pc = "start"
        /\ exclusion = [kind |-> "list", val |-> << >>]
        /\ import_path = Unset
        /\ export_path = Unset
        /\ files = << >>
        /\ messages = {}
        /\ stdout = << >>
        /\ exitCode = << >>
        /\ copies = 0
        /\ copyLog = << >>

\* Grassify.__init__, called by main()
Construct ==
    /\ pc = "start"
    /\ exclusion' = IF opts.exclusion = None
                    THEN [kind |-> "list", val |-> DefaultExclusion]
                    ELSE [kind |-> "str", val |-> opts.exclusion]
    /\ IF ~exists(opts.input_dir, fs, dirs)
       THEN /\ pc' = "fatal"
            /\ messages' = messages \cup {InputDirMessage}
            /\ exitCode' = <<1>>
            /\ UNCHANGED <<dirs, import_path, export_path, files>>
       ELSE /\ import_path' = opts.input_dir
            /\ IF opts.export_path = None
               THEN /\ export_path' = CandidateLoop(1, Unset, fs, dirs)
                    /\ dirs' = dirs
               ELSE /\ export_path' = opts.export_path
                    /\ dirs' = IF exists(opts.export_path, fs, dirs)
                               THEN dirs ELSE dirs \cup {opts.export_path}
            /\ LET filter_p == IF opts.pattern = None
                               THEN <<".", "*">> \o extension
                               ELSE opts.pattern
               IN  \E walk \in WalkOrders(import_path', fs, dirs') :
                       files' = Filter(walk, filter_p, exclusion')
            /\ messages' = IF IsFreshEmptyList(files')
                           THEN messages \cup {NoFilesMessage} ELSE messages
            /\ pc' = "constructed"
            /\ exitCode' = exitCode
    /\ UNCHANGED <<opts, fs, stdout, copies, copyLog, fs0>>

\* Grassify.print_products, the p branch of main()
PrintProducts ==
    /\ pc = "constructed"
    /\ opts.p
    /\ stdout' = stdout \o files
    /\ pc' = "printed"
    /\ UNCHANGED <<opts, fs, dirs, exclusion, import_path, export_path, files,
                   messages, exitCode, copies, copyLog, fs0>>

\* Grassify.copy(replace=flags['r']): main() calls it once; a caller of the
\* class may call it again on the same object
Copy ==
    /\ \/ pc = "constructed" /\ ~opts.p
       \/ pc = "copied" /\ copies < MaxCopyCalls
    /\ LET st == CopyLoop(1, [fs |-> fs, log |-> << >>, err |-> FALSE],
                          files, export_path, opts.r, dirs)
       IN  /\ fs' = st.fs
           /\ copyLog' = st.log
           /\ pc' = IF st.err THEN "raised" ELSE "copied"
           /\ exitCode' = IF st.err THEN <<1>> ELSE exitCode
    /\ copies' = copies + 1
    /\ UNCHANGED <<opts, dirs, exclusion, import_path, export_path, files,
                   messages, stdout, fs0>>

\* 'return 0' of main() and sys.exit
Exit ==
    /\ pc \in {"printed", "copied"}
    /\ pc' = "exited"
    /\ exitCode' = <<0>>
    /\ UNCHANGED <<opts, fs, dirs, exclusion, import_path, export_path, files,
                   messages, stdout, copies, copyLog, fs0>>

Next == Construct \/ PrintProducts \/ Copy \/ Exit

Spec == Init /\ [][Next]_vars

-----------------------------------------------------------------------------
(* What the specification states, in its own terms *)

\* the exclusion set of the run: the built-in names, or the name given
ExclusionSet ==
    IF opts.exclusion = None
    THEN {DefaultExclusion[k] : k \in DOMAIN DefaultExclusion}
    ELSE {opts.exclusion}

\* the pattern of the run
EffectivePattern ==
    IF opts.pattern = None THEN <<".", "*", ".", "p", "y">> ELSE opts.pattern

\* the files of the tree under input_dir before the run
TreeFiles == {p \in DOMAIN fs0 : Under(opts.input_dir, dirname(p))}

FileName(p) == basename(p)

\* matches the pattern at its start and ends with '.py'
Selected(p) ==
    /\ re_match(EffectivePattern, FileName(p))
    /\ EndsWith(FileName(p), <<".", "p", "y">>)

Discovered == {files[k] : k \in DOMAIN files}

\* the name without its final extension '.py', every underscore a dot
ExpectedName(name) ==
    [k \in 1..(Len(name) - 3) |-> IF name[k] = "_" THEN "." ELSE name[k]]

ExpectedDest(file) == export_path \o <<"/">> \o ExpectedName(FileName(file))

\* the paths whose file is new or has other content than before the run
Changed == {p \in DOMAIN fs : p \notin DOMAIN fs0 \/ fs[p] # fs0[p]}

NoCandidateExists ==
    \A k \in DOMAIN candidates : ~exists(CandidatePath(candidates[k]), fs0, dirs)

\* where the content of a discovered file ends up: its destination path, or
\* its own name inside the destination path when that is a directory
ExpectedTarget(file) ==
    IF ExpectedDest(file) \in dirs
    THEN ExpectedDest(file) \o <<"/">> \o FileName(file)
    ELSE ExpectedDest(file)

\* the last discovered file that ends up where files[k] does
LastWithTarget(k) ==
    CHOOSE j \in DOMAIN files :
        /\ ExpectedTarget(files[j]) = ExpectedTarget(files[k])
        /\ \A i \in DOMAIN files :
               ExpectedTarget(files[i]) = ExpectedTarget(files[k]) => i <= j

-----------------------------------------------------------------------------
(* Claims *)

\* C1: discovery returns the path of every file under input_dir whose name
\* matches the pattern at its start, ends with '.py' and is not in the
\* exclusion set, each exactly once, and the path of no other file.
C1_Discovery ==
    pc = "constructed" =>
        /\ \A p \in TreeFiles :
               (Selected(p) /\ FileName(p) \notin ExclusionSet) =>
                   Cardinality({k \in DOMAIN files : files[k] = p}) = 1
        /\ \A k \in DOMAIN files :
               /\ files[k] \in TreeFiles
               /\ Selected(files[k])
               /\ FileName(files[k]) \notin ExclusionSet

\* C2: no file whose name is in the exclusion set is discovered, and a file
\* whose name is not in the exclusion set is not dropped because of the
\* exclusion option.
C2_Exclusion ==
    pc = "constructed" =>
        /\ \A p \in Discovered : FileName(p) \notin ExclusionSet
        /\ \A p \in TreeFiles :
               (FileName(p) \notin ExclusionSet /\ Selected(p)) => p \in Discovered

\* C3: files named '__init__.py' or 'setup.py' are never discovered and
\* never copied, whatever the exclusion parameter is.
C3_BuiltinExclusions ==
    /\ \A p \in Discovered : FileName(p) \notin {n_init_py, n_setup_py}
    /\ \A k \in DOMAIN copyLog :
           copyLog[k].copied => FileName(copyLog[k].src) \notin {n_init_py, n_setup_py}

\* C4: copy writes a discovered file only to export_path/<name>, <name> its
\* basename without the final extension and with every underscore a dot, and
\* writes no path that is not such a name of a discovered file.
C4_DestinationNames ==
    /\ \A k \in DOMAIN copyLog :
           copyLog[k].copied => copyLog[k].target = ExpectedDest(copyLog[k].src)
    /\ (copies > 0 /\ export_path # Unset) =>
           \A p \in Changed : \E k \in DOMAIN files : p = ExpectedDest(files[k])

\* C5 as stated: after copy with replace=True, the destination of every
\* discovered file has the content that file had when it was copied,
\* whatever else was discovered and whatever the destination held.
C5_OverwriteContent ==
    (pc = "copied" /\ opts.r) =>
        \A k \in DOMAIN files :
            /\ ExpectedDest(files[k]) \in DOMAIN fs
            /\ fs[ExpectedDest(files[k])] = copyLog[k].content

\* C5 as amended: after copy with replace=True completes, the destination
\* path of every discovered file (the file's own name inside it, when the
\* destination path is a directory) holds the content that the last
\* discovered file with that destination had when it was copied.
C5_OverwriteLastWins ==
    (pc = "copied" /\ opts.r) =>
        \A k \in DOMAIN files :
            /\ copyLog[LastWithTarget(k)].copied
            /\ ExpectedTarget(files[k]) \in DOMAIN fs
            /\ fs[ExpectedTarget(files[k])] = copyLog[LastWithTarget(k)].content

\* two discovered files share a destination name, the destination existed
\* with other content, and it now holds what the later file had
C5_Witness ==
    /\ pc = "copied" /\ opts.r
    /\ \E j \in DOMAIN files : \E k \in DOMAIN files :
           /\ j < k
           /\ ExpectedDest(files[j]) = ExpectedDest(files[k])
           /\ ExpectedDest(files[k]) \in DOMAIN fs0
           /\ fs[ExpectedDest(files[k])] = fs0[files[k]]
           /\ fs[ExpectedDest(files[k])] # fs0[files[j]]

\* C6: with replace=False a destination file that existed before the run
\* keeps its content, no error is raised, the remaining files are handled,
\* and the process exits with 0.
C6_SkipExisting ==
    (~opts.r /\ copies > 0) =>
        \A k \in DOMAIN files :
            ExpectedDest(files[k]) \in DOMAIN fs0 =>
                /\ fs[ExpectedDest(files[k])] = fs0[ExpectedDest(files[k])]
                /\ pc # "raised"
                /\ exitCode # <<1>>
                /\ Len(copyLog) = Len(files)
                /\ \A j \in DOMAIN files : exists(ExpectedDest(files[j]), fs, dirs)
                /\ pc = "exited" => exitCode = <<0>>

\* a destination existed and was skipped, another file was copied, exit 0
C6_Witness ==
    /\ ~opts.r /\ pc = "exited" /\ exitCode = <<0>> /\ copies > 0
    /\ \E k \in DOMAIN files : \E j \in DOMAIN files :
           /\ ExpectedDest(files[k]) \in DOMAIN fs0
           /\ ~copyLog[k].copied
           /\ ExpectedDest(files[j]) \notin DOMAIN fs0
           /\ ExpectedDest(files[j]) \in DOMAIN fs

\* C7: with replace=False a second copy leaves the destination tree as the
\* first copy left it.
C7_Idempotent ==
    [][(copies > 0 /\ copies' = copies + 1 /\ ~opts.r) =>
           (fs' = fs /\ dirs' = dirs /\ pc' = "copied")]_vars

\* copy ran twice without replace, and the first run had written a file
C7_Witness ==
    /\ copies = 2 /\ ~opts.r /\ pc = "copied"
    /\ Changed # {}
    /\ \E k \in DOMAIN copyLog : ~copyLog[k].copied

\* C8: with no export_path given and no candidate directory existing the run
\* ends fatally during destination resolution, in copy and in print mode,
\* and copies nothing.
C8_FatalWithoutDestination ==
    (opts.export_path = None /\ NoCandidateExists /\ pc # "start") =>
        /\ pc = "fatal"
        /\ exitCode = <<1>>
        /\ fs = fs0

\* C9: when nothing is discovered the 'No files detected' message is
\* emitted, nothing is copied and the process exits with 0.
C9_NoFilesMessage ==
    (pc = "exited" /\ files = << >>) =>
        /\ NoFilesMessage \in messages
        /\ fs = fs0
        /\ exitCode = <<0>>

\* C10 as stated: every file under input_dir keeps its path and content, and
\* copy only adds or overwrites files under export_path.
C10_SourcesUntouched ==
    /\ \A p \in TreeFiles : p \in DOMAIN fs /\ fs[p] = fs0[p]
    /\ export_path # Unset => \A p \in Changed : Under(export_path, p)

\* C10 as amended: every file that existed before copy still exists at its
\* path, and a file has new content only at the destination path of a
\* discovered file or directly inside a directory at such a path.
C10_OnlyDestinationsChange ==
    /\ \A p \in DOMAIN fs0 : p \in DOMAIN fs
    /\ \A p \in Changed :
           \E k \in DOMAIN files :
               \/ p = ExpectedDest(files[k])
               \/ ExpectedDest(files[k]) \in dirs /\ dirname(p) = ExpectedDest(files[k])

\* export_path is input_dir, and copy has overwritten a file of the tree
\* while every file of the tree is still there
C10_Witness ==
    /\ pc = "copied"
    /\ export_path = import_path
    /\ \E p \in TreeFiles : p \in DOMAIN fs /\ fs[p] # fs0[p]
    /\ \A p \in TreeFiles : p \in DOMAIN fs

====
